---- MODULE Spec2Model ----
(***************************************************************************)
(* Model of the schema chunking pipeline of rag/classes/db_schema_extractor *)
(* and rag/classes/db_schema_builder.                                       *)
(*                                                                          *)
(* A Python str is a sequence of one-character strings, so that strip(),    *)
(* lower(), "in", re.split and the text splitter work on characters as the  *)
(* code does.  Python's None is the model value None.                       *)
(***************************************************************************)
EXTENDS Integers, Sequences, FiniteSets, TLC

VARIABLES
    pc,           \* which call has returned: "init" before any call
    text,         \* str argument of the last text-level call
    chunk_size,   \* chunk_size the splitter was created with
    block_type,   \* result of _detect_block_type
    blocks,       \* result of _split_by_comment_blocks
    parts,        \* result of splitter.split_text
    schemas,      \* List[TableSchema] given to split_schemas / returned by extract_schemas
    done,         \* number of schemas the loop of split_schemas has consumed
    all_chunks,   \* all_chunks of split_schemas
    db,           \* the schema source behind DatabaseSchemaExtractor.db
    table_names,  \* table_names argument of extract_schemas
    raised,       \* exception the last call ended with, or None
    schema_data,  \* records given to create_documents
    documents,    \* documents returned by create_documents
    queries,      \* the queries the last call made of the schema source, in order
    returned      \* List[dict] returned by get_schema_chunks / get_table_chunks

vars == <<pc, text, chunk_size, block_type, blocks, parts, schemas, done,
          all_chunks, db, table_names, raised, schema_data, documents,
          queries, returned>>

\* None, told apart from every str (a str holds one-character strings only)
None == <<"None">>

----------------------------------------------------------------------------
(* Bounds of the model *)

\* pieces a text given to the splitter or to the block detector is made of
MaxPieces == 4
\* segments a raw_table_info given to the chunker is made of
MaxSegments == 2
\* largest of the small chunk sizes tried
MaxChunkSize == 4
\* tables in one call of split_schemas, and tables of a schema source
MaxTables == 2
\* records in one call of create_documents
MaxRecords == 2

----------------------------------------------------------------------------
(* Python str primitives *)

NL == "\n"
SP == " "

\* A character is a one-character string of Latin-1 (U+0000 to U+00FF), the
\* characters a string of this module holds.

\* the letters of Latin-1 that str.lower() changes, and what it makes of them
UpperLetters == <<"A","B","C","D","E","F","G","H","I","J","K","L","M",
                  "N","O","P","Q","R","S","T","U","V","W","X","Y","Z",
                  "À","Á","Â","Ã","Ä","Å","Æ","Ç","È","É","Ê","Ë","Ì",
                  "Í","Î","Ï","Ð","Ñ","Ò","Ó","Ô","Õ","Ö","Ø","Ù","Ú",
                  "Û","Ü","Ý","Þ">>
LowerLetters == <<"a","b","c","d","e","f","g","h","i","j","k","l","m",
                  "n","o","p","q","r","s","t","u","v","w","x","y","z",
                  "à","á","â","ã","ä","å","æ","ç","è","é","ê","ë","ì",
                  "í","î","ï","ð","ñ","ò","ó","ô","õ","ö","ø","ù","ú",
                  "û","ü","ý","þ">>

\* str.isspace() on one character: tab, newline, vertical tab, form feed,
\* carriage return, U+001C to U+001F, space, U+0085, U+00A0
IsSpace(c) ==
    c \in {" ", "\n", "\t", "\r", "\f", "", "", "", "", "", "", " "}

\* the letter map of str.lower(), from every letter it changes
LowerOf ==
    [c \in {UpperLetters[k] : k \in 1..Len(UpperLetters)} |->
        LowerLetters[CHOOSE k \in 1..Len(UpperLetters) : UpperLetters[k] = c]]

\* str.lower() on one character
LowerChar(c) == IF c \in DOMAIN LowerOf THEN LowerOf[c] ELSE c

\* str.lower()
Lower(s) == [k \in 1..Len(s) |-> LowerChar(s[k])]

SetMin(S) == CHOOSE x \in S : \A y \in S : x <= y

\* s[i..] starts with sub
StartsAt(s, sub, i) ==
    /\ i + Len(sub) - 1 <= Len(s)
    /\ \A k \in 1..Len(sub) : s[i + k - 1] = sub[k]

RECURSIVE LStripFrom(_, _)
\* index of the first non-space character at or after i; Len(s) + 1 when none
LStripFrom(s, i) ==
    IF i > Len(s) \/ ~IsSpace(s[i]) THEN i ELSE LStripFrom(s, i + 1)

RECURSIVE RStripFrom(_, _)
\* index of the last non-space character at or before j; 0 when none
RStripFrom(s, j) ==
    IF j < 1 \/ ~IsSpace(s[j]) THEN j ELSE RStripFrom(s, j - 1)

\* str.strip()
Strip(s) == SubSeq(s, LStripFrom(s, 1), RStripFrom(s, Len(s)))

RECURSIVE Find(_, _, _)
\* s.find(sub, from) with 1-based indexes; 0 when sub does not occur
Find(s, sub, from) ==
    IF from + Len(sub) - 1 > Len(s) THEN 0
    ELSE IF StartsAt(s, sub, from) THEN from
    ELSE Find(s, sub, from + 1)

\* sub in s
Contains(s, sub) == Find(s, sub, 1) # 0

RECURSIVE Join(_)
\* "".join(list)
Join(list) == IF list = <<>> THEN <<>> ELSE Head(list) \o Join(Tail(list))

\* list(s)
Chars(s) == [k \in 1..Len(s) |-> <<s[k]>>]

\* [x for x in list if x != ""]
NonEmpty(list) == SelectSeq(list, LAMBDA x : x # <<>>)

----------------------------------------------------------------------------
(* RecursiveCharacterTextSplitter as SchemaSplitter._create_splitter        *)
(* configures it: keep_separator=True, plain (escaped) separators, the      *)
(* library defaults length_function=len and strip_whitespace=True.          *)

DEFAULT_CHUNK_SIZE == 800
DEFAULT_CHUNK_OVERLAP == 0

Separators ==
    << <<NL, NL, "/", "*", NL>>,
       <<NL, "*", "/", NL, NL, "/", "*", NL>>,
       <<NL, "*", "/", NL>>,
       <<NL, NL>>,
       <<NL>>,
       <<SP>>,
       <<>> >>

RECURSIVE re_split_literal(_, _)
\* re.split("(" + re.escape(sep) + ")", s) for a non-empty sep:
\* [before, sep, between, sep, ..., after]
re_split_literal(s, sep) ==
    LET i == Find(s, sep, 1)
    IN  IF i = 0
        THEN <<s>>
        ELSE <<SubSeq(s, 1, i - 1), sep>>
             \o re_split_literal(SubSeq(s, i + Len(sep), Len(s)), sep)

\* _split_text_with_regex(text, separator, keep_separator=True)
split_text_with_regex(s, sep) ==
    IF sep # <<>>
    THEN LET sp == re_split_literal(s, sep)
             glued == [k \in 1..((Len(sp) - 1) \div 2) |-> sp[2 * k] \o sp[2 * k + 1]]
         IN  NonEmpty(<<sp[1]>> \o glued)
    ELSE NonEmpty(Chars(s))

\* TextSplitter._join_docs(docs, separator): None when nothing is left
join_docs(docs, separator) ==
    LET joined == Strip(Join(docs))
    IN  IF joined = <<>> THEN None ELSE joined

\* the while loop of _merge_splits dropping one split only
merge_pop_one(current_doc, total, len_d, size, overlap) ==
    <<Tail(current_doc), total - Len(Head(current_doc))>>

RECURSIVE merge_pop(_, _, _, _, _)
\* the while loop of _merge_splits: drop from the front of current_doc
merge_pop(current_doc, total, len_d, size, overlap) ==
    IF total > overlap \/ (total + len_d > size /\ total > 0)
    THEN merge_pop(Tail(current_doc), total - Len(Head(current_doc)), len_d, size, overlap)
    ELSE <<current_doc, total>>

RECURSIVE merge_loop_late(_, _, _, _, _, _)
\* the for loop of _merge_splits closing a document only once it is too long
merge_loop_late(splits, k, docs, current_doc, total, size) ==
    IF k > Len(splits)
    THEN LET doc == join_docs(current_doc, <<>>)
         IN  IF doc # None THEN Append(docs, doc) ELSE docs
    ELSE LET d == splits[k]
             flush == total > size /\ Len(current_doc) > 0
             doc == join_docs(current_doc, <<>>)
         IN  merge_loop_late(splits, k + 1,
                 IF flush /\ doc # None THEN Append(docs, doc) ELSE docs,
                 IF flush THEN <<d>> ELSE Append(current_doc, d),
                 IF flush THEN Len(d) ELSE total + Len(d), size)

RECURSIVE merge_loop(_, _, _, _, _, _)
\* the for loop of _merge_splits over splits[k..]
merge_loop(splits, k, docs, current_doc, total, size) ==
    IF k > Len(splits)
    THEN LET doc == join_docs(current_doc, <<>>)
         IN  IF doc # None THEN Append(docs, doc) ELSE docs
    ELSE LET d == splits[k]
             flush == total + Len(d) > size /\ Len(current_doc) > 0
             doc == join_docs(current_doc, <<>>)
             docs1 == IF flush /\ doc # None THEN Append(docs, doc) ELSE docs
             popped == IF flush
                       THEN merge_pop(current_doc, total, Len(d), size, DEFAULT_CHUNK_OVERLAP)
                       ELSE <<current_doc, total>>
         IN  merge_loop(splits, k + 1, docs1, Append(popped[1], d),
                        popped[2] + Len(d), size)

\* _merge_splits joining all the splits into one document
merge_splits_whole(splits, size) ==
    LET doc == join_docs(splits, <<>>)
    IN  IF doc # None THEN <<doc>> ELSE <<>>

\* TextSplitter._merge_splits(splits, separator="")
merge_splits(splits, size) == merge_loop(splits, 1, <<>>, <<>>, 0, size)

\* index of the separator _split_text picks: the first that is "" or occurs
\* in the text; 0 when none does
PickSeparator(s, separators) ==
    LET hit == {i \in 1..Len(separators) :
                    separators[i] = <<>> \/ Contains(s, separators[i])}
    IN  IF hit = {} THEN 0 ELSE SetMin(hit)

RECURSIVE split_text_rec(_, _, _)
RECURSIVE split_text_loop(_, _, _, _, _, _)

\* the for loop of _split_text over splits[k..]
split_text_loop(splits, k, good_splits, final_chunks, new_separators, size) ==
    IF k > Len(splits)
    THEN IF good_splits # <<>>
         THEN final_chunks \o merge_splits(good_splits, size)
         ELSE final_chunks
    ELSE LET s == splits[k]
         IN  IF Len(s) < size
             THEN split_text_loop(splits, k + 1, Append(good_splits, s),
                                  final_chunks, new_separators, size)
             ELSE LET merged == IF good_splits # <<>>
                                THEN final_chunks \o merge_splits(good_splits, size)
                                ELSE final_chunks
                      other == IF new_separators = <<>>
                               THEN <<s>>
                               ELSE split_text_rec(s, new_separators, size)
                  IN  split_text_loop(splits, k + 1, <<>>, merged \o other,
                                      new_separators, size)

\* RecursiveCharacterTextSplitter._split_text(text, separators)
split_text_rec(s, separators, size) ==
    LET i == PickSeparator(s, separators)
        separator == IF i = 0 THEN separators[Len(separators)] ELSE separators[i]
        new_separators == IF i = 0 \/ separator = <<>>
                          THEN <<>>
                          ELSE SubSeq(separators, i + 1, Len(separators))
    IN  split_text_loop(split_text_with_regex(s, separator), 1, <<>>, <<>>,
                        new_separators, size)

\* splitter.split_text(text) for the splitter _create_splitter(size, 0) returns
split_text(s, size) == split_text_rec(s, Separators, size)

----------------------------------------------------------------------------
(* SchemaSplitter *)

\* ChunkType
DESCRIPTION == "description"
SCHEMA == "schema"
COLUMNS == "columns"
SAMPLES == "samples"
GENERAL == "general"

KwCreateTable == <<"c","r","e","a","t","e",SP,"t","a","b","l","e">>
KwColumnComments == <<"c","o","l","u","m","n",SP,"c","o","m","m","e","n","t","s",":">>
KwRowsFrom == <<"r","o","w","s",SP,"f","r","o","m">>
NoDescription == <<"N","o",SP,"d","e","s","c","r","i","p","t","i","o","n">>
CommentOpen == <<"/", "*">>
CommentClose == <<"*", "/">>

TableHeader(table_name) == <<"T","A","B","L","E",":",SP>> \o table_name \o <<NL, NL>>
DescriptionLabel == <<"D","E","S","C","R","I","P","T","I","O","N",":",NL>>
SchemaLabel == <<"S","C","H","E","M","A",":",NL>>
ColumnsLabel == <<"C","O","L","U","M","N",SP,"D","E","S","C","R","I","P","T","I","O","N","S",":",NL>>
SamplesLabel == <<"S","A","M","P","L","E",SP,"D","A","T","A",":",NL>>

\* _detect_block_type searching the text as spelled, without .lower()
detect_block_type_cased(s) ==
    IF Contains(s, KwCreateTable) THEN SCHEMA
    ELSE IF Contains(s, KwColumnComments) THEN COLUMNS
    ELSE IF Contains(s, KwRowsFrom) THEN SAMPLES
    ELSE GENERAL

\* SchemaSplitter._detect_block_type(text)
detect_block_type(s) ==
    LET text_lower == Lower(s)
    IN  IF Contains(text_lower, KwCreateTable) THEN SCHEMA
        ELSE IF Contains(text_lower, KwColumnComments) THEN COLUMNS
        ELSE IF Contains(text_lower, KwRowsFrom) THEN SAMPLES
        ELSE GENERAL

RECURSIVE re_split_comments_greedy(_)
\* the split on the greedy pattern (/\*.*\*/): a match runs to the last */
re_split_comments_greedy(s) ==
    LET starts == {i \in 1..Len(s) :
                      /\ StartsAt(s, CommentOpen, i)
                      /\ Find(s, CommentClose, i + 2) # 0}
    IN  IF starts = {}
        THEN <<s>>
        ELSE LET i == SetMin(starts)
                 j == CHOOSE x \in (i + 2)..Len(s) :
                          /\ StartsAt(s, CommentClose, x)
                          /\ \A y \in (x + 1)..Len(s) : ~StartsAt(s, CommentClose, y)
             IN  <<SubSeq(s, 1, i - 1), SubSeq(s, i, j + 1)>>
                 \o re_split_comments_greedy(SubSeq(s, j + 2, Len(s)))

RECURSIVE re_split_comments(_)
\* re.split(r"(/\*.*?\*/)", text, flags=re.DOTALL):
\* [before, comment, between, comment, ..., after]
re_split_comments(s) ==
    LET starts == {i \in 1..Len(s) :
                      /\ StartsAt(s, CommentOpen, i)
                      /\ Find(s, CommentClose, i + 2) # 0}
    IN  IF starts = {}
        THEN <<s>>
        ELSE LET i == SetMin(starts)
                 j == Find(s, CommentClose, i + 2)
             IN  <<SubSeq(s, 1, i - 1), SubSeq(s, i, j + 1)>>
                 \o re_split_comments(SubSeq(s, j + 2, Len(s)))

RECURSIVE comment_blocks_loop(_, _, _)
\* the for loop of _split_by_comment_blocks over parts[k..]
comment_blocks_loop(ps, k, bs) ==
    IF k > Len(ps)
    THEN bs
    ELSE IF Strip(ps[k]) = <<>>
         THEN comment_blocks_loop(ps, k + 1, bs)
         ELSE comment_blocks_loop(ps, k + 1,
                  Append(bs, <<Strip(ps[k]), detect_block_type(ps[k])>>))

\* SchemaSplitter._split_by_comment_blocks(text): list of (text, type)
split_by_comment_blocks(s) == comment_blocks_loop(re_split_comments(s), 1, <<>>)

\* the formatting with the labels of the columns and samples blocks exchanged
format_chunk_content_swapped(table_name, content, chunk_type) ==
    LET stripped == Strip(content)
    IN  IF chunk_type = SCHEMA THEN TableHeader(table_name) \o SchemaLabel \o stripped
        ELSE IF chunk_type = COLUMNS THEN TableHeader(table_name) \o SamplesLabel \o stripped
        ELSE IF chunk_type = SAMPLES THEN TableHeader(table_name) \o ColumnsLabel \o stripped
        ELSE TableHeader(table_name) \o stripped

\* SchemaSplitter._format_chunk_content(table_name, content, chunk_type)
format_chunk_content(table_name, content, chunk_type) ==
    LET stripped == Strip(content)
    IN  IF chunk_type = SCHEMA THEN TableHeader(table_name) \o SchemaLabel \o stripped
        ELSE IF chunk_type = COLUMNS THEN TableHeader(table_name) \o ColumnsLabel \o stripped
        ELSE IF chunk_type = SAMPLES THEN TableHeader(table_name) \o SamplesLabel \o stripped
        ELSE TableHeader(table_name) \o stripped

\* SchemaChunk(...)
SchemaChunk(table_name, columns_names, content, chunk_type, chunk_order) ==
    [table_name |-> table_name, columns_names |-> columns_names,
     content |-> content, chunk_type |-> chunk_type, chunk_order |-> chunk_order]

\* TableSchema(...)
TableSchema(table_name, columns_names, raw_table_info, table_comment) ==
    [table_name |-> table_name, columns_names |-> columns_names,
     raw_table_info |-> raw_table_info, table_comment |-> table_comment]

\* the test without its comparison with the sentinel
HasDescription_any(schema) ==
    /\ schema.table_comment # None
    /\ schema.table_comment # <<>>

\* the test "schema.table_comment and schema.table_comment != 'No description'"
HasDescription(schema) ==
    /\ schema.table_comment # None
    /\ schema.table_comment # <<>>
    /\ schema.table_comment # NoDescription

\* the description chunk of split_single_schema
description_chunk(schema, order) ==
    SchemaChunk(schema.table_name, schema.columns_names,
                TableHeader(schema.table_name) \o DescriptionLabel \o schema.table_comment,
                DESCRIPTION, order)

RECURSIVE parts_loop_retyped(_, _, _, _, _, _)
\* the loop detecting the type of every part anew instead of using the
\* type of its block
parts_loop_retyped(schema, ps, k, type, chunks, order) ==
    IF k > Len(ps)
    THEN <<chunks, order>>
    ELSE parts_loop_retyped(schema, ps, k + 1, type,
             Append(chunks,
                 SchemaChunk(schema.table_name, schema.columns_names,
                     format_chunk_content(schema.table_name, ps[k],
                                          detect_block_type(ps[k])),
                     detect_block_type(ps[k]), order)),
             order + 1)

RECURSIVE parts_loop(_, _, _, _, _, _)
\* "for part in parts" of split_single_schema: <<chunks, order>> after parts[k..]
parts_loop(schema, ps, k, type, chunks, order) ==
    IF k > Len(ps)
    THEN <<chunks, order>>
    ELSE parts_loop(schema, ps, k + 1, type,
             Append(chunks,
                 SchemaChunk(schema.table_name, schema.columns_names,
                     format_chunk_content(schema.table_name, ps[k], type),
                     type, order)),
             order + 1)

RECURSIVE blocks_loop(_, _, _, _, _, _)
\* "for block_text, block_type in blocks" of split_single_schema
blocks_loop(schema, bs, b, chunks, order, size) ==
    IF b > Len(bs)
    THEN chunks
    ELSE LET after == parts_loop(schema, split_text(bs[b][1], size), 1,
                                 bs[b][2], chunks, order)
         IN  blocks_loop(schema, bs, b + 1, after[1], after[2], size)

\* split_single_schema without "order += 1" after the description chunk
split_single_schema_no_bump(schema, size) ==
    blocks_loop(schema, split_by_comment_blocks(schema.raw_table_info), 1,
                IF HasDescription(schema) THEN <<description_chunk(schema, 1)>> ELSE <<>>,
                1, size)

\* SchemaSplitter.split_single_schema(schema, splitter) for a splitter of
\* chunk size `size`
split_single_schema(schema, size) ==
    LET described == HasDescription(schema)
        chunks == IF described THEN <<description_chunk(schema, 1)>> ELSE <<>>
        order == IF described THEN 2 ELSE 1
    IN  blocks_loop(schema, split_by_comment_blocks(schema.raw_table_info), 1,
                    chunks, order, size)

----------------------------------------------------------------------------
(* DatabaseSchemaExtractor over a schema source `d`.                        *)
(* d is the list of the source's tables in the order get_usable_table_names *)
(* reports them; each entry holds what the source answers for that table:   *)
(* info and columns are the answers of get_table_info and get_columns, and  *)
(* comment is the answer of get_table_comment: a dict, given by its keys,   *)
(* or an exception.  A call ends in Return(v) or in Raise(e).               *)

Return(v) == [ok |-> TRUE, value |-> v, exc |-> None]
Raise(e) == [ok |-> FALSE, value |-> None, exc |-> e]

NotImplementedError == <<"NotImplementedError">>
OperationalError == <<"OperationalError">>
ValueError == <<"ValueError">>
NoSuchTableError == <<"NoSuchTableError">>
KeyError(key) == <<"KeyError", key>>

Known(d, table_name) == \E k \in 1..Len(d) : d[k].table_name = table_name
Entry(d, table_name) == d[CHOOSE k \in 1..Len(d) : d[k].table_name = table_name]

\* list(self.db.get_usable_table_names())
get_usable_table_names(d) == [k \in 1..Len(d) |-> d[k].table_name]

\* DatabaseSchemaExtractor._get_table_info(table_name)
get_table_info(d, table_name) ==
    IF ~Known(d, table_name) THEN Raise(ValueError)
    ELSE Entry(d, table_name).info

\* DatabaseSchemaExtractor._get_column_names(table_name)
get_column_names(d, table_name) ==
    IF ~Known(d, table_name) THEN Raise(NoSuchTableError)
    ELSE LET columns == Entry(d, table_name).columns
         IN  IF columns.ok
             THEN Return([k \in 1..Len(columns.value) |-> columns.value[k].name])
             ELSE columns

\* DatabaseSchemaExtractor._get_table_comment(table_name):
\* comment_dict.get("text", "No description")
get_table_comment(d, table_name) ==
    IF ~Known(d, table_name) THEN Raise(NoSuchTableError)
    ELSE LET comment_dict == Entry(d, table_name).comment
         IN  IF ~comment_dict.ok THEN comment_dict
             ELSE IF "text" \in DOMAIN comment_dict.value
                  THEN Return(comment_dict.value.text)
                  ELSE Return(NoDescription)

\* DatabaseSchemaExtractor._extract_table_schema(table_name)
extract_table_schema(d, table_name) ==
    LET table_info == get_table_info(d, table_name)
        column_names == get_column_names(d, table_name)
        table_comment == get_table_comment(d, table_name)
    IN  IF ~table_info.ok THEN table_info
        ELSE IF ~column_names.ok THEN column_names
        ELSE IF ~table_comment.ok THEN table_comment
        ELSE Return(TableSchema(table_name, column_names.value,
                                table_info.value, table_comment.value))

RECURSIVE extract_loop_skipping(_, _, _, _)
\* the loop leaving out a table whose extraction fails
extract_loop_skipping(d, names, k, out) ==
    IF k > Len(names)
    THEN Return(out)
    ELSE LET schema == extract_table_schema(d, names[k])
         IN  extract_loop_skipping(d, names, k + 1,
                 IF schema.ok THEN Append(out, schema.value) ELSE out)

RECURSIVE extract_loop(_, _, _, _)
\* "for table in table_names" of extract_schemas over names[k..]
extract_loop(d, names, k, out) ==
    IF k > Len(names)
    THEN Return(out)
    ELSE LET schema == extract_table_schema(d, names[k])
         IN  IF ~schema.ok THEN schema
             ELSE extract_loop(d, names, k + 1, Append(out, schema.value))

\* extract_schemas testing "if not table_names" instead of "is None"
extract_schemas_falsy(d, names) ==
    extract_loop(d, IF names.given /\ names.list # <<>>
                    THEN names.list ELSE get_usable_table_names(d),
                 1, <<>>)

\* DatabaseSchemaExtractor.extract_schemas(table_names); names.given is
\* "table_names is not None"
extract_schemas(d, names) ==
    extract_loop(d, IF names.given THEN names.list ELSE get_usable_table_names(d),
                 1, <<>>)

\* the queries _extract_table_schema makes of the source for one table, each
\* as <<method, table>>: the next is made only when the one before answered
table_queries(d, table_name) ==
    <<  <<"get_table_info", table_name>> >>
    \o (IF get_table_info(d, table_name).ok
        THEN <<  <<"get_columns", table_name>> >>
             \o (IF get_column_names(d, table_name).ok
                 THEN <<  <<"get_table_comment", table_name>> >>
                 ELSE <<>>)
        ELSE <<>>)

RECURSIVE extract_queries_loop(_, _, _, _)
\* the queries of "for table in table_names" over names[k..], up to the
\* first table whose extraction fails
extract_queries_loop(d, names, k, log) ==
    IF k > Len(names)
    THEN log
    ELSE IF extract_table_schema(d, names[k]).ok
         THEN extract_queries_loop(d, names, k + 1, log \o table_queries(d, names[k]))
         ELSE log \o table_queries(d, names[k])

\* the queries extract_schemas(table_names) makes of the source
extract_queries(d, names) ==
    IF names.given
    THEN extract_queries_loop(d, names.list, 1, <<>>)
    ELSE extract_queries_loop(d, get_usable_table_names(d), 1,
                              <<  <<"get_usable_table_names", <<>> >> >>)

----------------------------------------------------------------------------
(* SchemaDocumentBuilder.  A dict is a function from its keys. *)

\* SchemaChunk.to_dict()
to_dict(chunk) ==
    [table_name |-> chunk.table_name, columns_names |-> chunk.columns_names,
     content |-> chunk.content, chunk_type |-> chunk.chunk_type,
     chunk_order |-> chunk.chunk_order]

\* SchemaDocumentBuilder._build_document_content(table_info)
build_document_content(table_info) ==
    IF "table_schema" \in DOMAIN table_info
    THEN Return(Strip(table_info.table_schema))
    ELSE Raise(KeyError("table_schema"))

DatabaseSchemaSource == <<"d", "a", "t", "a", "b", "a", "s", "e", "_", "s", "c", "h", "e", "m", "a">>

\* SchemaDocumentBuilder._build_metadata(table_info)
build_metadata(table_info) ==
    IF "table_name" \notin DOMAIN table_info THEN Raise(KeyError("table_name"))
    ELSE IF "columns_names" \notin DOMAIN table_info THEN Raise(KeyError("columns_names"))
    ELSE Return([table_name |-> table_info.table_name,
                 columns |-> table_info.columns_names,
                 source |-> DatabaseSchemaSource])

\* Document(page_content=content, metadata=metadata)
Document(content, metadata) == [page_content |-> content, metadata |-> metadata]

RECURSIVE create_documents_loop(_, _, _)
\* "for table_info in schema_data" of create_documents over data[k..]
create_documents_loop(data, k, docs) ==
    IF k > Len(data)
    THEN Return(docs)
    ELSE LET content == build_document_content(data[k])
             metadata == build_metadata(data[k])
         IN  IF ~content.ok THEN content
             ELSE IF ~metadata.ok THEN metadata
             ELSE create_documents_loop(data, k + 1,
                      Append(docs, Document(content.value, metadata.value)))

\* SchemaDocumentBuilder.create_documents(schema_data)
create_documents(data) == create_documents_loop(data, 1, <<>>)

RECURSIVE create_documents_from_schema_loop(_, _, _)
\* "for table_info in schema_data" of create_documents_from_schema over
\* data[k..]: page_content is table_info["table_schema"] as it is
create_documents_from_schema_loop(data, k, docs) ==
    IF k > Len(data)
    THEN Return(docs)
    ELSE IF "table_schema" \notin DOMAIN data[k] THEN Raise(KeyError("table_schema"))
    ELSE IF "table_name" \notin DOMAIN data[k] THEN Raise(KeyError("table_name"))
    ELSE IF "columns_names" \notin DOMAIN data[k] THEN Raise(KeyError("columns_names"))
    ELSE create_documents_from_schema_loop(data, k + 1,
             Append(docs,
                 Document(data[k].table_schema,
                          [table_name |-> data[k].table_name,
                           columns |-> data[k].columns_names,
                           source |-> DatabaseSchemaSource])))

\* create_documents_from_schema(schema_data) of rag/doc.py
create_documents_from_schema(data) == create_documents_from_schema_loop(data, 1, <<>>)

----------------------------------------------------------------------------
(* DatabaseSchemaProcessor over a schema source `d`. *)

RECURSIVE split_schemas_loop(_, _, _, _)
\* "for schema in schemas" of split_schemas over list[k..]
split_schemas_loop(list, k, chunks, size) ==
    IF k > Len(list)
    THEN chunks
    ELSE split_schemas_loop(list, k + 1,
                            chunks \o split_single_schema(list[k], size), size)

\* SchemaSplitter.split_schemas(schemas, chunk_size)
split_schemas(list, size) == split_schemas_loop(list, 1, <<>>, size)

\* chunk_size of get_schema_chunks
SchemaChunksSize == 400

\* the calls a processor method makes: extract_schemas(names), then
\* split_schemas(schemas, size), then to_dict of every chunk
processor_chunks(d, names, size) ==
    LET extracted == extract_schemas(d, names)
    IN  IF ~extracted.ok THEN extracted
        ELSE LET chunks == split_schemas(extracted.value, size)
             IN  Return([k \in 1..Len(chunks) |-> to_dict(chunks[k])])

\* DatabaseSchemaProcessor.get_schema_chunks()
get_schema_chunks(d) ==
    processor_chunks(d, [given |-> FALSE, list |-> <<>>], SchemaChunksSize)

\* DatabaseSchemaProcessor.get_table_chunks(table_name)
get_table_chunks(d, table_name) ==
    processor_chunks(d, [given |-> TRUE, list |-> <<table_name>>], DEFAULT_CHUNK_SIZE)

----------------------------------------------------------------------------
(* Inputs *)

RECURSIVE Concats(_, _)
\* the texts made of at most n pieces of the menu
Concats(menu, n) ==
    IF n = 0
    THEN {<<>>}
    ELSE LET prev == Concats(menu, n - 1)
         IN  prev \cup {t \o p : t \in prev, p \in menu}

\* pieces of block text that meet every separator of the splitter
SplitterPieces ==
    { <<"a">>, <<"b", "c">>, <<SP>>, <<NL>>,
      <<NL, NL, "/", "*", NL>>, <<NL, "*", "/", NL>> }

SplitterTexts == Concats(SplitterPieces, MaxPieces)

ChunkSizes == 1..MaxChunkSize

\* pieces of text that meet the keywords and comment marks of the detector
DetectorPieces ==
    { <<"C", "r", "e", "a", "t", "e", SP, "T", "a", "b", "l", "e">>,
      <<"c", "o", "l", "u", "m", "n", SP, "C", "o", "m", "m", "e", "n", "t", "s", ":">>,
      <<"R", "o", "w", "s", SP, "f", "r", "o", "m">>,
      CommentOpen, CommentClose, <<NL>>, <<"x">> }

DetectorTexts == Concats(DetectorPieces, MaxPieces)

\* segments of a raw_table_info as get_table_info writes them
InfoSegments ==
    { <<"C", "R", "E", "A", "T", "E", SP, "T", "A", "B", "L", "E", SP, "t", SP, "(", "a", ")">>,
      <<NL, NL>>,
      <<"/", "*", NL, "C", "o", "l", "u", "m", "n", SP, "C", "o", "m", "m", "e", "n", "t", "s", ":", SP, "a", NL, "*", "/">>,
      <<"/", "*", NL, "2", SP, "r", "o", "w", "s", SP, "f", "r", "o", "m", SP, "t", ":", NL, "a", NL, "1", NL, "*", "/">>,
      <<"x", SP, "y">> }

InfoTexts == Concats(InfoSegments, MaxSegments)

TableComments == {None, <<>>, NoDescription, <<"H", "i", SP, "a", "l", "l">>}

\* the table whose schema varies
VariedTables ==
    {TableSchema(<<"t">>, << <<"a">> >>, info, comment) :
        info \in InfoTexts, comment \in TableComments}

\* the k-th of the tables split before it: u, uu, ...
EarlierTable(k) ==
    TableSchema([j \in 1..k |-> "u"], << <<"b">>, <<"c">> >>,
                <<"c", "r", "e", "a", "t", "e", SP, "t", "a", "b", "l", "e", SP, "u", SP, "(", "b", ")", NL, NL, "/", "*", NL, "1", SP, "r", "o", "w", "s", SP, "f", "r", "o", "m", SP, "u", NL, "*", "/">>,
                IF k % 2 = 1 THEN <<"U", "s", "e", "r", "s">> ELSE NoDescription)

\* the table of the customers scenario and the parts of its raw_table_info
CustomersName == <<"c", "u", "s", "t", "o", "m", "e", "r", "s">>

CustomersCreate == <<"C", "R", "E", "A", "T", "E", SP, "T", "A", "B", "L", "E", SP, "c", "u", "s", "t", "o", "m", "e", "r", "s", SP, "(", "c", "u", "s", "t", "o", "m", "e", "r", "_", "i", "d", SP, "T", "E", "X", "T", ")">>

CustomersRowsHead == <<"3", SP, "r", "o", "w", "s", SP, "f", "r", "o", "m", SP, "c", "u", "s", "t", "o", "m", "e", "r", "s", SP, "t", "a", "b", "l", "e">>

\* the rows printed under the head of the sample block
SampleRows ==
    { <<".", ".", ".">>,
      <<"c", "u", "s", "t", "o", "m", "e", "r", "_", "i", "d", NL, "c", "1", NL, "c", "2", NL, "c", "3", NL>> }

CustomersInfo(rows) ==
    CustomersCreate \o <<NL, NL>> \o CommentOpen \o <<NL>>
        \o CustomersRowsHead \o <<":", NL>> \o rows \o CommentClose

ScenarioTables ==
    {TableSchema(CustomersName, << <<"c", "u", "s", "t", "o", "m", "e", "r", "_", "i", "d">>,
                                   <<"c", "u", "s", "t", "o", "m", "e", "r", "_", "c", "i", "t", "y">> >>,
                 CustomersInfo(rows), NoDescription) : rows \in SampleRows}

\* lists of at most MaxTables tables with distinct names
TableLists ==
    {[k \in 1..n |-> IF k < n THEN EarlierTable(k) ELSE last] :
        n \in 1..MaxTables, last \in VariedTables}

\* the same lists ending with a table of the customers scenario
ScenarioLists ==
    {[k \in 1..n |-> IF k < n THEN EarlierTable(k) ELSE last] :
        n \in 1..MaxTables, last \in ScenarioTables}

ChunkerSizes == ChunkSizes \cup {DEFAULT_CHUNK_SIZE}

\* the calls of split_schemas: the varied lists at every size, the scenario
\* lists at the default size
ChunkerCalls ==
    (TableLists \X ChunkerSizes) \cup (ScenarioLists \X {DEFAULT_CHUNK_SIZE})

\* the k-th table name of a schema source: t, tt, ...
SourceName(k) == [j \in 1..k |-> "t"]

SourceInfo == <<"C", "R", "E", "A", "T", "E", SP, "T", "A", "B", "L", "E", SP, "t", SP, "(", "a", ")", NL, NL, "/", "*", NL, "2", SP, "r", "o", "w", "s", SP, "f", "r", "o", "m", SP, "t", NL, "*", "/">>
SourceColumns == << [name |-> <<"a">>, type |-> "TEXT"], [name |-> <<"b">>, type |-> "TEXT"] >>

\* what a schema source may answer for one table: all well, or one of the
\* three queries deviating
SourceAnswers ==
    {[info |-> Return(SourceInfo), columns |-> Return(SourceColumns), comment |-> c] :
        c \in {Return([text |-> <<"H", "i", SP, "a", "l", "l">>]), Return([text |-> None]),
               Return(<<>>), Raise(NotImplementedError), Raise(OperationalError)}}
    \cup {[info |-> Raise(OperationalError), columns |-> Return(SourceColumns),
           comment |-> Return([text |-> None])],
          [info |-> Return(SourceInfo), columns |-> Raise(OperationalError),
           comment |-> Return([text |-> None])]}

SourceEntry(k, a) ==
    [table_name |-> SourceName(k), info |-> a.info, columns |-> a.columns,
     comment |-> a.comment]

\* schema sources of at most MaxTables tables
Databases ==
    UNION {{[k \in 1..n |-> SourceEntry(k, as[k])] : as \in [1..n -> SourceAnswers]} :
               n \in 0..MaxTables}

NoTableNames == [given |-> FALSE, list |-> <<>>]

\* table_names arguments: None, or a list of at most MaxTables table names
TableNameArgs ==
    {NoTableNames}
    \cup UNION {{[given |-> TRUE, list |-> [k \in 1..n |-> SourceName(ix[k])]] :
                    ix \in [1..n -> 1..MaxTables]} : n \in 0..MaxTables}

RecordKeys ==
    {"table_name", "columns_names", "content", "table_schema", "chunk_type", "chunk_order"}

RecordTexts == {<<"X">>, <<SP, NL, "X", SP, "y", NL>>, <<"", "X", " ", "y", "", "">>}

\* the value a record holds under key, its texts being body
RecordValue(key, body) ==
    CASE key = "table_name" -> <<"t">>
      [] key = "columns_names" -> << <<"a">>, <<"b">> >>
      [] key = "content" -> <<"T", "A", "B", "L", "E", ":", SP, "t", NL, NL>> \o body
      [] key = "table_schema" -> body
      [] key = "chunk_type" -> SCHEMA
      [] key = "chunk_order" -> 1

\* records with any of the keys
Records ==
    {[key \in keys |-> RecordValue(key, body)] :
        keys \in SUBSET RecordKeys, body \in RecordTexts}

\* a whole-schema record as the docstring of create_documents gives it
PlainRecord(k) ==
    [table_name |-> SourceName(k), columns_names |-> << <<"a">> >>,
     table_schema |-> SourceInfo \o <<NL>>]

\* record lists of at most MaxRecords records
RecordLists ==
    {[k \in 1..n |-> IF k < n THEN PlainRecord(k) ELSE last] :
        n \in 1..MaxRecords, last \in Records}
    \cup {<<>>}

----------------------------------------------------------------------------
(* The calls *)

\* nothing called yet, over the schema source d
IdleOver(d) ==
    /\ pc = "init"
    /\ text = <<>>
    /\ chunk_size = DEFAULT_CHUNK_SIZE
    /\ block_type = "none"
    /\ blocks = <<>>
    /\ parts = <<>>
    /\ schemas = <<>>
    /\ done = 0
    /\ all_chunks = <<>>
    /\ db = d
    /\ table_names = NoTableNames
    /\ raised = None
    /\ schema_data = <<>>
    /\ documents = <<>>
    /\ queries = <<>>
    /\ returned = <<>>

\* splitter = _create_splitter(size, 0); parts = splitter.split_text(t)
SplitText(t, size) ==
    /\ pc = "init"
    /\ pc' = "split_text"
    /\ text' = t
    /\ chunk_size' = size
    /\ parts' = split_text(t, size)
    /\ UNCHANGED <<queries, returned, block_type, blocks, schemas, done, all_chunks, db,
                   table_names, raised, schema_data, documents>>

\* block_type = _detect_block_type(t)
DetectBlockType(t) ==
    /\ pc = "init"
    /\ pc' = "detect_block_type"
    /\ text' = t
    /\ block_type' = detect_block_type(t)
    /\ UNCHANGED <<queries, returned, chunk_size, blocks, parts, schemas, done, all_chunks, db,
                   table_names, raised, schema_data, documents>>

\* blocks = _split_by_comment_blocks(t)
SplitByCommentBlocks(t) ==
    /\ pc = "init"
    /\ pc' = "split_by_comment_blocks"
    /\ text' = t
    /\ blocks' = split_by_comment_blocks(t)
    /\ UNCHANGED <<queries, returned, chunk_size, block_type, parts, schemas, done, all_chunks, db,
                   table_names, raised, schema_data, documents>>

\* split_schemas(list, chunk_size=size) up to its loop
SplitSchemasCall(list, size) ==
    /\ pc = "init"
    /\ pc' = "split_schemas"
    /\ schemas' = list
    /\ chunk_size' = size
    /\ done' = 0
    /\ all_chunks' = <<>>
    /\ UNCHANGED <<queries, returned, text, block_type, blocks, parts, db, table_names, raised,
                   schema_data, documents>>

\* one turn of "for schema in schemas" of split_schemas
SplitSchemasStep ==
    /\ pc = "split_schemas"
    /\ done < Len(schemas)
    /\ all_chunks' = all_chunks \o split_single_schema(schemas[done + 1], chunk_size)
    /\ done' = done + 1
    /\ UNCHANGED <<queries, returned, pc, text, chunk_size, block_type, blocks, parts, schemas, db,
                   table_names, raised, schema_data, documents>>

\* "return all_chunks" of split_schemas
SplitSchemasReturn ==
    /\ pc = "split_schemas"
    /\ done = Len(schemas)
    /\ pc' = "chunks_returned"
    /\ UNCHANGED <<queries, returned, text, chunk_size, block_type, blocks, parts, schemas, done,
                   all_chunks, db, table_names, raised, schema_data, documents>>

\* schemas = extractor.extract_schemas(names), or the exception it ends with
ExtractSchemas(names) ==
    /\ pc = "init"
    /\ pc' = "extract_schemas"
    /\ table_names' = names
    /\ LET r == extract_schemas(db, names)
       IN  /\ schemas' = IF r.ok THEN r.value ELSE schemas
           /\ raised' = r.exc
    /\ queries' = extract_queries(db, names)
    /\ UNCHANGED <<returned, text, chunk_size, block_type, blocks, parts, done,
                   all_chunks, db, schema_data, documents>>

\* documents = create_documents_from_schema(data) of rag/doc.py, or the
\* exception it ends with
CreateDocumentsFromSchema(data) ==
    /\ pc = "init"
    /\ pc' = "create_documents_from_schema"
    /\ schema_data' = data
    /\ LET r == create_documents_from_schema(data)
       IN  /\ documents' = IF r.ok THEN r.value ELSE documents
           /\ raised' = r.exc
    /\ UNCHANGED <<queries, returned, text, chunk_size, block_type, blocks, parts,
                   schemas, done, all_chunks, db, table_names>>

\* a processor method over db: the extraction with names, the split at size
\* and the dicts returned, or the exception the call ends with
ProcessorCall(method, names, size, r) ==
    /\ pc = "init"
    /\ pc' = method
    /\ table_names' = names
    /\ chunk_size' = size
    /\ queries' = extract_queries(db, names)
    /\ LET extracted == extract_schemas(db, names)
       IN  /\ schemas' = IF extracted.ok THEN extracted.value ELSE schemas
           /\ done' = IF extracted.ok THEN Len(extracted.value) ELSE done
           /\ all_chunks' = IF extracted.ok
                            THEN split_schemas(extracted.value, size)
                            ELSE all_chunks
    /\ returned' = IF r.ok THEN r.value ELSE returned
    /\ raised' = r.exc
    /\ UNCHANGED <<text, block_type, blocks, parts, db, schema_data, documents>>

\* returned = processor.get_schema_chunks(), or the exception it ends with
GetSchemaChunks ==
    ProcessorCall("get_schema_chunks", NoTableNames, SchemaChunksSize,
                  get_schema_chunks(db))

\* returned = processor.get_table_chunks(table_name), or the exception
GetTableChunks(table_name) ==
    ProcessorCall("get_table_chunks", [given |-> TRUE, list |-> <<table_name>>],
                  DEFAULT_CHUNK_SIZE, get_table_chunks(db, table_name))

\* documents = builder.create_documents(data), or the exception it ends with
CreateDocuments(data) ==
    /\ pc = "init"
    /\ pc' = "create_documents"
    /\ schema_data' = data
    /\ LET r == create_documents(data)
       IN  /\ documents' = IF r.ok THEN r.value ELSE documents
           /\ raised' = r.exc
    /\ UNCHANGED <<queries, returned, text, chunk_size, block_type, blocks, parts, schemas, done,
                   all_chunks, db, table_names>>


Idle == IdleOver(<<>>)

InitSplitter == Idle
NextSplitter == \E t \in SplitterTexts, size \in ChunkSizes : SplitText(t, size)
SpecSplitter == InitSplitter /\ [][NextSplitter]_vars

InitDetector == Idle
NextDetector ==
    \E t \in DetectorTexts :
        \/ DetectBlockType(t)
        \/ SplitByCommentBlocks(t)
SpecDetector == InitDetector /\ [][NextDetector]_vars

InitChunker == Idle
NextChunker ==
    \/ \E call \in ChunkerCalls : SplitSchemasCall(call[1], call[2])
    \/ SplitSchemasStep
    \/ SplitSchemasReturn
SpecChunker == InitChunker /\ [][NextChunker]_vars

InitExtractor == \E d \in Databases : IdleOver(d)
NextExtractor == \E names \in TableNameArgs : ExtractSchemas(names)
SpecExtractor == InitExtractor /\ [][NextExtractor]_vars

InitProcessor == \E d \in Databases : IdleOver(d)
NextProcessor ==
    \/ \E names \in TableNameArgs : ExtractSchemas(names)
    \/ GetSchemaChunks
    \/ \E k \in 1..MaxTables : GetTableChunks(SourceName(k))
SpecProcessor == InitProcessor /\ [][NextProcessor]_vars

InitBuilder == Idle
NextBuilder ==
    \/ \E data \in RecordLists : CreateDocuments(data)
    \/ \E data \in RecordLists : CreateDocumentsFromSchema(data)
SpecBuilder == InitBuilder /\ [][NextBuilder]_vars

----------------------------------------------------------------------------
(* Properties of the chunker, under SpecChunker *)

Chunked == pc \in {"split_schemas", "chunks_returned"}

\* the chunks of all_chunks cut from the k-th schema, in list order (the
\* schemas of one call have distinct table names)
ChunksOf(k) == SelectSeq(all_chunks, LAMBDA c : c.table_name = schemas[k].table_name)

\* the header format_chunk_content puts before a part of a block of that type
HeaderOf(table_name, type) ==
    <<"T", "A", "B", "L", "E", ":", SP>> \o table_name \o <<NL, NL>>
    \o (CASE type = SCHEMA -> <<"S", "C", "H", "E", "M", "A", ":", NL>>
          [] type = COLUMNS -> <<"C", "O", "L", "U", "M", "N", SP, "D", "E", "S", "C", "R", "I", "P", "T", "I", "O", "N", "S", ":", NL>>
          [] type = SAMPLES -> <<"S", "A", "M", "P", "L", "E", SP, "D", "A", "T", "A", ":", NL>>
          [] OTHER -> <<>>)

\* C1: the chunk_order values of the chunks of each table, read in list
\* order, are 1, 2, ..., N without gap or repeat, and the numbering starts
\* again at 1 for every table of split_schemas; every chunk belongs to a
\* table already split.
C1_ChunkOrderContiguous ==
    Chunked =>
        /\ \A k \in 1..done :
               \A i \in 1..Len(ChunksOf(k)) : ChunksOf(k)[i].chunk_order = i
        /\ \A i \in 1..Len(all_chunks) :
               \E k \in 1..done : all_chunks[i].table_name = schemas[k].table_name

\* two tables split, each into several chunks, the second with a
\* description chunk: the numbering restarts inside all_chunks
C1_Witness ==
    /\ pc = "chunks_returned"
    /\ Len(schemas) = 2
    /\ Len(ChunksOf(1)) >= 3
    /\ Len(ChunksOf(2)) >= 3
    /\ ChunksOf(2)[1].chunk_type = DESCRIPTION
    /\ \E i \in 1..(Len(all_chunks) - 1) :
           all_chunks[i].chunk_order >= 3 /\ all_chunks[i + 1].chunk_order = 1

\* C2 as claimed: every chunk content, its header included and the
\* description chunk included, is at most chunk_size long unless it is one
\* single character.
C2_ContentWithinChunkSize ==
    Chunked =>
        \A i \in 1..Len(all_chunks) :
            \/ Len(all_chunks[i].content) <= chunk_size
            \/ Len(all_chunks[i].content) = 1

\* C2 amended: the content of every chunk that is not a description chunk is
\* the header of its table and type followed by at most chunk_size
\* characters; the bound is on the text after the header, not on the content.
C2_BodyWithinChunkSize ==
    Chunked =>
        \A i \in 1..Len(all_chunks) :
            LET c == all_chunks[i]
                header == HeaderOf(c.table_name, c.chunk_type)
            IN  c.chunk_type # DESCRIPTION =>
                    /\ StartsAt(c.content, header, 1)
                    /\ Len(c.content) - Len(header) <= chunk_size

\* a block cut into several parts, one of them filling chunk_size exactly,
\* so that its content is longer than chunk_size
C2_Witness ==
    /\ pc = "chunks_returned"
    /\ chunk_size = MaxChunkSize
    /\ \E i \in 1..(Len(all_chunks) - 1) :
           /\ all_chunks[i].chunk_type = SCHEMA
           /\ all_chunks[i + 1].chunk_type = SCHEMA
           /\ Len(all_chunks[i].content)
                  = Len(HeaderOf(all_chunks[i].table_name, SCHEMA)) + chunk_size

\* C3: a table gets a description chunk exactly when its table_comment is
\* present, non-empty and not "No description"; then it is the only one, it
\* is the first chunk of the table with chunk_order 1 and content
\* "TABLE: <name>\n\nDESCRIPTION:\n<comment>", and the chunks of the blocks
\* start at order 2; otherwise the first chunk of a block has order 1.
C3_DescriptionChunk ==
    Chunked =>
        \A k \in 1..done :
            LET cs == ChunksOf(k)
                comment == schemas[k].table_comment
                described == comment \notin {None, <<>>, NoDescription}
                isDesc(c) == c.chunk_type = DESCRIPTION
            IN  IF described
                THEN /\ Len(cs) >= 1
                     /\ isDesc(cs[1])
                     /\ cs[1].chunk_order = 1
                     /\ cs[1].content
                            = <<"T", "A", "B", "L", "E", ":", SP>> \o schemas[k].table_name
                              \o <<NL, NL, "D", "E", "S", "C", "R", "I", "P", "T", "I", "O", "N", ":", NL>> \o comment
                     /\ \A i \in 2..Len(cs) : ~isDesc(cs[i])
                     /\ Len(cs) >= 2 => cs[2].chunk_order = 2
                ELSE /\ \A i \in 1..Len(cs) : ~isDesc(cs[i])
                     /\ Len(cs) >= 1 => cs[1].chunk_order = 1

\* a described table followed by its block chunks, after a table whose
\* comment is the sentinel and which has chunks but no description chunk
C3_Witness ==
    /\ pc = "chunks_returned"
    /\ Len(schemas) = 2
    /\ schemas[1].table_comment # NoDescription
    /\ schemas[2].table_comment = NoDescription
    /\ ChunksOf(1)[1].chunk_type = DESCRIPTION
    /\ Len(ChunksOf(1)) >= 2
    /\ Len(ChunksOf(2)) >= 1
    /\ ChunksOf(2)[1].chunk_type = SCHEMA

----------------------------------------------------------------------------
(* Properties of the document builder, under SpecBuilder *)

\* the keys SchemaChunk.to_dict gives a record
ChunkKeys == {"table_name", "columns_names", "content", "chunk_type", "chunk_order"}

\* the metadata C4 claims for a record
ClaimedMetadata(record) ==
    [key \in {"table_name", "columns", "source"}
             \cup (DOMAIN record \cap {"chunk_type", "chunk_order"}) |->
        CASE key = "table_name" -> record.table_name
          [] key = "columns" -> record.columns_names
          [] key = "source" -> <<"d", "a", "t", "a", "b", "a", "s", "e", "_", "s", "c", "h", "e", "m", "a">>
          [] key = "chunk_type" -> record.chunk_type
          [] key = "chunk_order" -> record.chunk_order]

\* C4 as claimed: for records in the form of SchemaChunk.to_dict,
\* create_documents returns one document per record, whose content is the
\* record's content trimmed and whose metadata is table_name, columns,
\* source plus the record's chunk_type and chunk_order.
C4_ChunkRecordDocument ==
    (pc = "create_documents"
     /\ \A k \in 1..Len(schema_data) : DOMAIN schema_data[k] = ChunkKeys)
    => /\ raised = None
       /\ Len(documents) = Len(schema_data)
       /\ \A k \in 1..Len(schema_data) :
              /\ documents[k].page_content = Strip(schema_data[k].content)
              /\ documents[k].metadata = ClaimedMetadata(schema_data[k])

----------------------------------------------------------------------------
(* Properties of the extractor, under SpecExtractor *)

\* the names extract_schemas has to work through
Requested == IF table_names.given THEN table_names.list
             ELSE [k \in 1..Len(db) |-> db[k].table_name]

\* the entry of the schema source for the k-th requested name
RequestedEntry(k) == db[CHOOSE j \in 1..Len(db) : db[j].table_name = Requested[k]]

AllKnown == \A k \in 1..Len(Requested) :
                \E j \in 1..Len(db) : db[j].table_name = Requested[k]

\* the source has no comment for the table, or cannot tell for its dialect
NoComment(entry) ==
    \/ entry.comment = Raise(NotImplementedError)
    \/ /\ entry.comment.ok
       /\ \/ "text" \notin DOMAIN entry.comment.value
          \/ entry.comment.value.text = None

\* the query that fails first for an entry, None when all three answer
FirstFailure(entry) ==
    IF ~entry.info.ok THEN entry.info.exc
    ELSE IF ~entry.columns.ok THEN entry.columns.exc
    ELSE IF ~entry.comment.ok THEN entry.comment.exc
    ELSE None

\* C5 as claimed: when table info and columns are answered and the source
\* either gives a comment, reports none (no text, or text None) or raises
\* NotImplementedError, extraction completes, no table_comment is None, and
\* a table without comment gets "No description".
C5_MissingCommentIsSentinel ==
    (/\ pc = "extract_schemas"
     /\ AllKnown
     /\ \A k \in 1..Len(Requested) :
            FirstFailure(RequestedEntry(k)) \in {None, NotImplementedError})
    => /\ raised = None
       /\ Len(schemas) = Len(Requested)
       /\ \A k \in 1..Len(Requested) :
              /\ schemas[k].table_comment # None
              /\ NoComment(RequestedEntry(k))
                     => schemas[k].table_comment = NoDescription

\* C6 as claimed: with table_names absent or empty every usable table is
\* extracted, in enumeration order; with a non-empty list the listed names.
C6_EmptyListMeansAllTables ==
    (pc = "extract_schemas" /\ raised = None)
    => [k \in 1..Len(schemas) |-> schemas[k].table_name]
           = IF table_names.given /\ table_names.list # <<>>
             THEN table_names.list
             ELSE [k \in 1..Len(db) |-> db[k].table_name]

\* C6 amended: with table_names absent (None) the names worked through are
\* the usable tables in enumeration order; with a list, empty or not, they
\* are the listed names in the given order, so an empty list returns an
\* empty list.  When every query on those tables answers, one TableSchema
\* per name is returned in that order, filled from the answers for its
\* table; otherwise the call ends with the exception of the first failing
\* query and returns nothing.
C6_OneSchemaPerRequestedName ==
    (pc = "extract_schemas" /\ AllKnown) =>
        LET failing == {k \in 1..Len(Requested) :
                            FirstFailure(RequestedEntry(k)) # None}
        IN  IF failing = {}
            THEN /\ raised = None
                 /\ Len(schemas) = Len(Requested)
                 /\ \A k \in 1..Len(Requested) :
                        /\ schemas[k].table_name = Requested[k]
                        /\ schemas[k].raw_table_info = RequestedEntry(k).info.value
                        /\ Len(schemas[k].columns_names)
                               = Len(RequestedEntry(k).columns.value)
            ELSE /\ raised = FirstFailure(RequestedEntry(SetMin(failing)))
                 /\ schemas = <<>>

\* an empty list given to a source that has tables returns no schema, and
\* a list naming the tables in reverse order returns them in that order
C6_Witness ==
    /\ pc = "extract_schemas"
    /\ raised = None
    /\ Len(db) = 2
    /\ table_names.given
    /\ \/ table_names.list = <<>> /\ schemas = <<>>
       \/ /\ Len(schemas) = 2
          /\ schemas[1].table_name = db[2].table_name
          /\ schemas[2].table_name = db[1].table_name

----------------------------------------------------------------------------
(* Properties of the block detector, under SpecDetector *)

\* kw, a lower-case keyword, occurs in s whatever the case of s
HasKeyword(s, kw) ==
    \E i \in 1..Len(s) :
        /\ i + Len(kw) - 1 <= Len(s)
        /\ \A k \in 1..Len(kw) : LowerChar(s[i + k - 1]) = kw[k]

\* the type the priority order of the keywords gives s
TypeByPriority(s) ==
    IF HasKeyword(s, <<"c", "r", "e", "a", "t", "e", SP, "t", "a", "b", "l", "e">>) THEN "schema"
    ELSE IF HasKeyword(s, <<"c", "o", "l", "u", "m", "n", SP, "c", "o", "m", "m", "e", "n", "t", "s", ":">>) THEN "columns"
    ELSE IF HasKeyword(s, <<"r", "o", "w", "s", SP, "f", "r", "o", "m">>) THEN "samples"
    ELSE "general"

\* s holds a comment block: a /* with a */ after it
HasComment(s) ==
    \E i \in 1..Len(s) : \E j \in (i + 2)..Len(s) :
        StartsAt(s, <<"/", "*">>, i) /\ StartsAt(s, <<"*", "/">>, j)

\* s is one comment block: it opens with /* and its first */ closes it
IsOneComment(s) ==
    /\ StartsAt(s, <<"/", "*">>, 1)
    /\ Len(s) >= 4
    /\ StartsAt(s, <<"*", "/">>, Len(s) - 1)
    /\ \A j \in 3..(Len(s) - 2) : ~StartsAt(s, <<"*", "/">>, j)

IsBlank(s) == \A i \in 1..Len(s) : IsSpace(s[i])

RECURSIVE CoversFrom(_, _, _, _)
\* s[pos..] is the texts ps[k..] in order, with nothing but whitespace
\* before, between and after them
CoversFrom(s, ps, k, pos) ==
    IF k > Len(ps)
    THEN \A i \in pos..Len(s) : IsSpace(s[i])
    ELSE \E start \in pos..(Len(s) + 1) :
             /\ \A i \in pos..(start - 1) : IsSpace(s[i])
             /\ StartsAt(s, ps[k], start)
             /\ CoversFrom(s, ps, k + 1, start + Len(ps[k]))

Covers(s, ps) == CoversFrom(s, ps, 1, 1)

\* s with its letters a to z written as capitals
InCapitals(s) ==
    [k \in 1..Len(s) |->
        IF \E n \in 1..26 : LowerLetters[n] = s[k]
        THEN UpperLetters[CHOOSE n \in 1..26 : LowerLetters[n] = s[k]]
        ELSE s[k]]

\* C7: the type of a segment is SCHEMA when it contains "create table",
\* else COLUMNS when it contains "column comments:", else SAMPLES when it
\* contains "rows from", else GENERAL, the search ignoring case; the
\* upper-case and the lower-case spelling of the segment get the same type.
C7_TypeByKeywordPriority ==
    pc = "detect_block_type" =>
        /\ block_type = TypeByPriority(text)
        /\ detect_block_type(InCapitals(text)) = block_type
        /\ detect_block_type(Lower(text)) = block_type

\* a segment spelled in mixed case that holds the keywords of two types and
\* gets the type of the higher priority
C7_Witness ==
    /\ pc = "detect_block_type"
    /\ block_type = "columns"
    /\ HasKeyword(text, <<"r", "o", "w", "s", SP, "f", "r", "o", "m">>)
    /\ text # Lower(text)
    /\ text # InCapitals(text)

\* C8 as claimed, for an input without comment block (taken not empty and
\* without whitespace around it): exactly one block, GENERAL or SCHEMA,
\* holding the whole text.
C8_NoCommentOneWholeBlock ==
    (pc = "split_by_comment_blocks" /\ ~HasComment(text)
     /\ text # <<>> /\ Strip(text) = text)
    => /\ Len(blocks) = 1
       /\ blocks[1][1] = text
       /\ blocks[1][2] \in {"general", "schema"}

\* C8 amended: the blocks are the segments of the input in their original
\* order, each trimmed of the whitespace around it, whitespace-only segments
\* dropped; no block is empty or whitespace-only; every block is either one
\* whole comment block or text holding no comment block; every block has the
\* type its keywords give it; and an input without comment block yields no
\* block when it is empty or whitespace-only and otherwise exactly one
\* block, the trimmed text, of any of the four block types.
C8_BlocksAreTrimmedSegments ==
    pc = "split_by_comment_blocks" =>
        LET texts == [k \in 1..Len(blocks) |-> blocks[k][1]]
        IN  /\ Covers(text, texts)
            /\ \A k \in 1..Len(blocks) :
                   /\ texts[k] # <<>>
                   /\ ~IsSpace(texts[k][1])
                   /\ ~IsSpace(texts[k][Len(texts[k])])
                   /\ HasComment(texts[k]) => IsOneComment(texts[k])
                   /\ blocks[k][2] = TypeByPriority(texts[k])
            /\ Len(SelectSeq(texts, IsOneComment)) >= 1 <=> HasComment(text)
            /\ ~HasComment(text) =>
                   /\ Len(blocks) = (IF IsBlank(text) THEN 0 ELSE 1)
                   /\ ~IsBlank(text) => blocks[1][1] = Strip(text)

\* text, then whitespace that is dropped, then a comment block of its own
C8_Witness ==
    /\ pc = "split_by_comment_blocks"
    /\ Len(blocks) = 2
    /\ ~IsOneComment(blocks[1][1])
    /\ IsOneComment(blocks[2][1])
    /\ Len(text) > Len(blocks[1][1]) + Len(blocks[2][1])

----------------------------------------------------------------------------
(* Properties of the text splitter, under SpecSplitter *)

\* C9: every part split_text returns is at most chunk_size long, unless it
\* is a single character.
C9_PartsWithinChunkSize ==
    pc = "split_text" =>
        \A k \in 1..Len(parts) :
            Len(parts[k]) <= chunk_size \/ Len(parts[k]) = 1

\* a text longer than twice chunk_size cut into several parts, one of them
\* merged from several splits up to chunk_size exactly
C9_Witness ==
    /\ pc = "split_text"
    /\ chunk_size >= 3
    /\ Len(text) > 2 * chunk_size
    /\ Len(parts) >= 2
    /\ \E k \in 1..Len(parts) :
           /\ Len(parts[k]) = chunk_size
           /\ \E i \in 1..Len(parts[k]) : IsSpace(parts[k][i])

\* C10 as claimed, for the texts the block detector can hand over (not
\* empty, no whitespace around): the parts concatenated in order are the
\* text.
C10_PartsConcatenateToText ==
    (pc = "split_text" /\ text # <<>> /\ Strip(text) = text)
    => Join(parts) = text

\* C10 amended: the text is the parts in order with nothing but whitespace
\* before, between and after them: whitespace at the boundaries of the parts
\* may be dropped, every other character is kept, once and in its place.
C10_PartsCoverTextButWhitespace ==
    pc = "split_text" => Covers(text, parts)

\* parts that lost whitespace between them, one of them keeping whitespace
\* inside
C10_Witness ==
    /\ pc = "split_text"
    /\ Len(parts) >= 2
    /\ Len(Join(parts)) < Len(text)
    /\ \E k \in 1..Len(parts) : \E i \in 1..Len(parts[k]) : IsSpace(parts[k][i])

\* a table of the customers scenario, split at the default chunk size
IsScenario(k) ==
    /\ Chunked
    /\ k \in 1..done
    /\ schemas[k] \in ScenarioTables
    /\ chunk_size = DEFAULT_CHUNK_SIZE

\* s begins with the characters of prefix
StartsWith(s, prefix) == StartsAt(s, prefix, 1)

\* two chunks, schema at order 1 and samples at order 2, the first beginning
\* with the labelled CREATE TABLE statement and the second with samplesStart
ScenarioChunks(k, samplesStart) ==
    LET cs == ChunksOf(k)
    IN  /\ Len(cs) = 2
        /\ \A i \in 1..Len(cs) : cs[i].chunk_type # DESCRIPTION
        /\ cs[1].chunk_type = SCHEMA
        /\ cs[1].chunk_order = 1
        /\ StartsWith(cs[1].content,
                      HeaderOf(CustomersName, SCHEMA) \o <<"C", "R", "E", "A", "T", "E", SP, "T", "A", "B", "L", "E", SP, "c", "u", "s", "t", "o", "m", "e", "r", "s">>)
        /\ cs[2].chunk_type = SAMPLES
        /\ cs[2].chunk_order = 2
        /\ StartsWith(cs[2].content,
                      HeaderOf(CustomersName, SAMPLES) \o samplesStart)

\* C11 as stated: the customers table without a description yields two chunks,
\* the schema chunk at order 1 and the samples chunk at order 2, and the sample
\* text "3 rows from customers table" follows the SAMPLE DATA label directly
C11_SampleTextFollowsLabel ==
    \A k \in 1..Len(schemas) :
        IsScenario(k) => ScenarioChunks(k, CustomersRowsHead)

\* C11 as the code has it: the same two chunks, but the samples content keeps
\* the comment opener, so "/*" and a newline stand between the SAMPLE DATA
\* label and "3 rows from customers table"
C11_SampleBlockKeepsCommentOpener ==
    \A k \in 1..Len(schemas) :
        IsScenario(k) =>
            /\ ScenarioChunks(k, CommentOpen \o <<NL>> \o CustomersRowsHead)
            /\ ChunksOf(k)[2].content =
                   HeaderOf(CustomersName, SAMPLES)
                       \o Strip(SubSeq(schemas[k].raw_table_info,
                                       Len(CustomersCreate) + 1,
                                       Len(schemas[k].raw_table_info)))

\* the customers table has been split at the default size into its two chunks
C11_Witness ==
    \E k \in 1..Len(schemas) :
        /\ IsScenario(k)
        /\ Len(ChunksOf(k)) = 2
        /\ ChunksOf(k)[2].chunk_type = SAMPLES

\* the record holds its text, as a chunk (content) or as a whole schema
\* (table_schema)
HasContentField(record) ==
    "content" \in DOMAIN record \/ "table_schema" \in DOMAIN record

\* the required fields the record lacks
MissingFields(record) ==
    ({"table_name", "columns_names"} \ DOMAIN record)
    \cup (IF HasContentField(record) THEN {} ELSE {"content", "table_schema"})

\* C12: when a record lacks table_name, columns_names or its content field,
\* create_documents raises an error naming a field that record lacks and
\* returns no list
C12_MalformedRecordNamesMissingField ==
    (pc = "create_documents"
     /\ \E k \in 1..Len(schema_data) : MissingFields(schema_data[k]) # {})
    => /\ \E k \in 1..Len(schema_data) :
              raised \in {<<"KeyError", key>> : key \in MissingFields(schema_data[k])}
       /\ documents = <<>>

RECURSIVE BlockTypes(_, _, _)
\* the type of every block of bs[b..], once for each part of the block
BlockTypes(bs, b, size) ==
    IF b > Len(bs)
    THEN <<>>
    ELSE [i \in 1..Len(split_text(bs[b][1], size)) |-> bs[b][2]]
         \o BlockTypes(bs, b + 1, size)

\* the place in schemas of the table the i-th chunk names
TableIndex(i) ==
    CHOOSE k \in 1..Len(schemas) : schemas[k].table_name = all_chunks[i].table_name

\* C14: the chunks of all_chunks follow the order of the schemas, so the
\* chunks of one table stand together; every chunk has the table_name and
\* columns_names of its TableSchema and a content beginning
\* "TABLE: <table_name>\n\n"; after the description chunk the chunk types
\* are the block types in block order, each once per part of its block, and
\* chunk_order grows by one from chunk to chunk.
C14_ChunksFollowTablesAndBlocks ==
    Chunked =>
        /\ \A i \in 1..Len(all_chunks) :
               \E k \in 1..done : schemas[k].table_name = all_chunks[i].table_name
        /\ \A i, j \in 1..Len(all_chunks) :
               i < j => TableIndex(i) <= TableIndex(j)
        /\ \A k \in 1..done :
               LET cs == ChunksOf(k)
                   cut == SelectSeq(cs, LAMBDA c : c.chunk_type # DESCRIPTION)
               IN  /\ \A i \in 1..Len(cs) :
                          /\ cs[i].columns_names = schemas[k].columns_names
                          /\ StartsWith(cs[i].content,
                                        <<"T", "A", "B", "L", "E", ":", SP>>
                                            \o schemas[k].table_name \o <<NL, NL>>)
                   /\ [i \in 1..Len(cut) |-> cut[i].chunk_type]
                          = BlockTypes(split_by_comment_blocks(schemas[k].raw_table_info),
                                       1, chunk_size)
                   /\ \A i \in 1..(Len(cs) - 1) :
                          cs[i + 1].chunk_order = cs[i].chunk_order + 1

\* two tables returned, the chunks of the first before those of the second,
\* and in the second a block cut into two parts of one type followed by a
\* block of another type
C14_Witness ==
    /\ pc = "chunks_returned"
    /\ Len(schemas) = 2
    /\ Len(ChunksOf(1)) >= 2
    /\ LET cs == ChunksOf(2)
       IN  \E i \in 1..(Len(cs) - 2) :
               /\ cs[i].chunk_type = SCHEMA
               /\ cs[i + 1].chunk_type = SCHEMA
               /\ cs[i].content # cs[i + 1].content
               /\ cs[i + 2].chunk_type \in {COLUMNS, SAMPLES}
               /\ cs[i + 2].chunk_order = cs[i].chunk_order + 2

----------------------------------------------------------------------------
(* Properties of extraction and chunking over a failing source, under      *)
(* SpecProcessor                                                            *)

\* a call that extracts has ended
Extracted == pc \in {"extract_schemas", "get_schema_chunks", "get_table_chunks"}

KnownName(k) == \E j \in 1..Len(db) : db[j].table_name = Requested[k]

\* the exception extracting the k-th requested table ends with, or None
FailureOf(k) ==
    IF ~KnownName(k) THEN ValueError ELSE FirstFailure(RequestedEntry(k))

\* the number of queries made for a failing table when none is repeated
QueriesUntilFailure(k) ==
    IF ~KnownName(k) THEN 1
    ELSE IF ~RequestedEntry(k).info.ok THEN 1
    ELSE IF ~RequestedEntry(k).columns.ok THEN 2
    ELSE 3

\* the dicts returned for the k-th requested table
ReturnedFor(k) == SelectSeq(returned, LAMBDA c : c.table_name = Requested[k])

\* C13: when the first query that fails is not the unsupported-comment case,
\* the call ends with that query's exception, every query before it was made
\* once and none after it, and nothing is returned: no TableSchema, no chunk.
\* When no query fails, every requested table has its TableSchema filled from
\* the three answers, and a processor call returns its whole chunk sequence.
C13_QueryFailurePropagates ==
    Extracted =>
        LET failing == {k \in 1..Len(Requested) : FailureOf(k) # None}
        IN  IF failing # {}
            THEN LET first == SetMin(failing)
                 IN  FailureOf(first) # NotImplementedError =>
                         /\ raised = FailureOf(first)
                         /\ schemas = <<>>
                         /\ all_chunks = <<>>
                         /\ returned = <<>>
                         /\ Len(queries) = (IF table_names.given THEN 0 ELSE 1)
                                              + 3 * (first - 1)
                                              + QueriesUntilFailure(first)
                         /\ queries[Len(queries)][2] = Requested[first]
            ELSE /\ raised = None
                 /\ Len(schemas) = Len(Requested)
                 /\ \A k \in 1..Len(Requested) :
                        /\ schemas[k].table_name = Requested[k]
                        /\ schemas[k].raw_table_info = RequestedEntry(k).info.value
                        /\ Len(schemas[k].columns_names)
                               = Len(RequestedEntry(k).columns.value)
                        /\ pc # "extract_schemas" =>
                               LET whole == split_single_schema(schemas[k], chunk_size)
                               IN  /\ whole # <<>>
                                   /\ ReturnedFor(k)
                                          = [i \in 1..Len(whole) |-> to_dict(whole[i])]

\* get_schema_chunks over two tables, the first answering every query and
\* the comment query of the second failing: the call ended with the
\* exception after seven queries and returned nothing
C13_Witness ==
    /\ pc = "get_schema_chunks"
    /\ Len(db) = 2
    /\ FirstFailure(db[1]) = None
    /\ db[2].info.ok
    /\ db[2].columns.ok
    /\ db[2].comment = Raise(OperationalError)
    /\ raised = OperationalError
    /\ Len(queries) = 7
    /\ returned = <<>>
====
